---- MODULE Spec2Model ----
(***************************************************************************)
(* Buffer assignment of geon/util/analysis.py: the dataflow graph built    *)
(* from a result set, its topological order, the liveness analysis, the    *)
(* interference graph and its weighted colouring, as assign_buffers runs   *)
(* them.                                                                   *)
(*                                                                         *)
(* An op is a number: its id, the key of every sorted(..., key=x.id).      *)
(* An op's tensor description is the op itself (TD), so distinct ops own   *)
(* distinct descriptions.  The initializer of op n is the op NumNodes + n  *)
(* and the NumPy array that initializer takes the op 2 * NumNodes + n.     *)
(***************************************************************************)
EXTENDS FiniteSets, Integers, Sequences, TLC

\* Number of ops the operation graph may hold.
NumNodes == 3

Node == 1..NumNodes

\* The initializer sub-operation an op may carry in op.initializers, and the
\* NumPyTensor that initializer may take in its args
InitializerOf(n) == NumNodes + n
NumPyTensorOf(i) == NumNodes + i
Initializer == {InitializerOf(n) : n \in Node}
NumPyTensor == {NumPyTensorOf(i) : i \in Initializer}

\* Everything that has a tensor description
Tensor == Node \cup Initializer \cup NumPyTensor

\* Depth at which the interpreter gives up a recursion (RecursionError).  Any
\* value above the depth an acyclic graph of NumNodes ops needs.
RecursionLimit == NumNodes + 2

\* fusible=None (assign_buffers' default) and the two policies of the file.
None == "None"
Policies == {None, "never_fusible", "gpu_fusible"}

\* What a tensor description says of its storage: shape and dtype.itemsize.
\* <<0>> is an empty tensor, <<1, 2>> one of two elements.
TensorKinds == {[shape |-> <<0>>, itemsize |-> 4], [shape |-> <<1, 2>>, itemsize |-> 4]}

VARIABLES
    pc,          \* where assign_buffers (or color) stands
    exc,         \* the exception that ended the call, "none" otherwise
    run,         \* 1 in the first call of assign_buffers, 2 in the second
    args,        \* op -> its argument ops (w.args)
    results,     \* the result set handed to assign_buffers
    fusible,     \* the fusible argument of assign_buffers
    persistent,  \* the ops tagged 'persistent'
    initializers, \* op -> its initializer sub-operations (op.initializers)
    nptensors,   \* initializer -> the NumPyTensor ops among its args
    tdesc,       \* tensor description -> its shape and itemsize
    successors,  \* dfg.successors
    order,       \* order, in liveness()
    liveness,    \* the mapping liveness() returns
    neighbors,   \* ifg.neighbors
    weights,     \* ifg.weights
    partitions,  \* partitions, in color()
    buffers,     \* buffers, in color()
    buffer,      \* tensor description -> its buffer attribute, <<>> for none
    memory,      \* the memory assign_buffers returns
    prevBuffer,  \* buffer as the first call left it
    prevMemory   \* memory as the first call returned it

vars == <<pc, exc, run, args, results, fusible, persistent, initializers,
          nptensors, tdesc, successors,
          order, liveness, neighbors, weights, partitions, buffers,
          buffer, memory, prevBuffer, prevMemory>>

----------------------------------------------------------------------------
\* Helpers

Range(s) == {s[i] : i \in DOMAIN s}

Empty == [x \in {} |-> {}]

Max(a, b) == IF a >= b THEN a ELSE b

RECURSIVE SortedSeq(_)
\* sorted(S, key=lambda x: x.id)
SortedSeq(S) ==
    IF S = {} THEN <<>>
    ELSE LET m == CHOOSE x \in S : \A y \in S : x <= y
         IN  <<m>> \o SortedSeq(S \ {m})

RECURSIVE Product(_)
\* reduce(mul, shape, 1)
Product(shape) == IF shape = <<>> THEN 1 ELSE Head(shape) * Product(Tail(shape))

RECURSIVE SumSizes(_)
\* sum([x.size for x in buffers])
SumSizes(bs) == IF bs = <<>> THEN 0 ELSE Head(bs).size + SumSizes(Tail(bs))

\* x.tensor_description(transformer)
TD(x) == x

\* {x.tensor_description(transformer) for x in op.args}
Uses(a, op) == {TD(x) : x \in a[op]}

\* {x.tensor_description(transformer) for x in op.defs}: an op defines its own value
Defs(op) == {TD(op)}

----------------------------------------------------------------------------
\* Digraph

\* Digraph._invert
Invert(adjacency) ==
    [x \in DOMAIN adjacency |-> {y \in DOMAIN adjacency : x \in adjacency[y]}]

\* Digraph.inputs
Inputs(succ) == {u \in DOMAIN succ : Invert(succ)[u] = {}}

\* Fun as result.append(x)
FunAppend(result, x) == result \o <<x>>

\* The lambda topsort hands to dfs: result.insert(0, x)
Fun(result, x) == <<x>> \o result

RECURSIVE Visit(_, _, _), VisitAll(_, _, _)
\* visit(u, fun) of Digraph.dfs; st holds visited and topsort's result list
Visit(succ, u, st) ==
    IF u \in st.visited THEN st
    ELSE LET st1 == VisitAll(succ, SortedSeq(succ[u]), st)
         IN  [visited |-> st1.visited \cup {u}, result |-> Fun(st1.result, u)]

\* for v in sorted(vs, key=id): if v not in visited: visit(v, fun)
VisitAll(succ, vs, st) ==
    IF vs = <<>> THEN st
    ELSE VisitAll(succ, Tail(vs),
                  IF Head(vs) \notin st.visited THEN Visit(succ, Head(vs), st) ELSE st)

\* Digraph.topsort
Topsort(succ) ==
    VisitAll(succ, SortedSeq(Inputs(succ)), [visited |-> {}, result |-> <<>>]).result

----------------------------------------------------------------------------
\* DataFlowGraph

\* successors[w] |= set() on a defaultdict(set): the key comes to exist
Touch(succ, w) == IF w \in DOMAIN succ THEN succ ELSE succ @@ (w :> {})

\* AddSucc as successors[v] = {w}: an earlier consumer of v is forgotten
AddSuccOnly(succ, v, w) == [Touch(succ, v) EXCEPT ![v] = {w}]

\* successors[v].add(w)
AddSucc(succ, v, w) == [Touch(succ, v) EXCEPT ![v] = @ \cup {w}]

RECURSIVE FillSuccessors(_, _, _, _), FillArgs(_, _, _, _, _)
\* DataFlowGraph._fill_successors(results) at recursion depth `depth`.  ws is
\* what is left of results; st holds the successors map and whether the
\* interpreter has raised RecursionError.  The final map does not depend on
\* the order results and w.args are walked in; ascending id is used.
FillSuccessors(a, ws, st, depth) ==
    IF st.err THEN st
    ELSE IF depth > RecursionLimit THEN [st EXCEPT !.err = TRUE]
    ELSE IF ws = <<>> THEN st
    ELSE LET w   == Head(ws)
             st1 == [st EXCEPT !.succ = Touch(st.succ, w)]
             st2 == FillArgs(a, w, SortedSeq(a[w]), st1, depth)
         IN  FillSuccessors(a, Tail(ws), st2, depth)

\* for v in w.args: self.successors[v].add(w); self._fill_successors({v})
FillArgs(a, w, vs, st, depth) ==
    IF st.err \/ vs = <<>> THEN st
    ELSE LET v   == Head(vs)
             st1 == [st EXCEPT !.succ = AddSucc(st.succ, v, w)]
             st2 == FillSuccessors(a, <<v>>, st1, depth + 1)
         IN  FillArgs(a, w, Tail(vs), st2, depth)

\* DataFlowGraph.__init__
DataFlowGraph(a, res) ==
    FillSuccessors(a, SortedSeq(res), [succ |-> Empty, err |-> FALSE], 1)

RECURSIVE LiveBackKeepDefs(_, _, _, _)
\* LiveBack without "- defs": what the current instruction defines stays live
LiveBackKeepDefs(ord, a, last, k) ==
    IF k = Len(ord) THEN last
    ELSE Uses(a, ord[k + 1]) \cup LiveBackKeepDefs(ord, a, last, k + 1)

\* LiveBack as liveness[previous] = use: what is live at the current
\* instruction is not carried back
LiveBackUsesOnly(ord, a, last, k) ==
    IF k = Len(ord) THEN last ELSE Uses(a, ord[k + 1])

RECURSIVE LiveBack(_, _, _, _)
\* What the backward pass of liveness() leaves in liveness[ord[k]]
LiveBack(ord, a, last, k) ==
    IF k = Len(ord) THEN last
    ELSE Uses(a, ord[k + 1]) \cup (LiveBack(ord, a, last, k + 1) \ Defs(ord[k + 1]))

\* can_do_inplace as lambda x: True
CanDoInplaceAlways(op) == TRUE

\* can_do_inplace = lambda x: False
CanDoInplace(op) == FALSE

\* if not can_do_inplace(op): liveness[op] |= uses of op
InplaceStep(a, op, live) == IF ~CanDoInplace(op) THEN live \cup Uses(a, op) ELSE live

\* DataFlowGraph.liveness, for a non-empty order
Liveness(ord, a, res, pers) ==
    LET last == {TD(x) : x \in res} \cup {TD(x) : x \in pers}
    IN  [op \in Range(ord) |->
            LET k == CHOOSE i \in DOMAIN ord : ord[i] = op
            IN  InplaceStep(a, op, LiveBack(ord, a, last, k))]

----------------------------------------------------------------------------
\* assign_buffers

RECURSIVE Reach(_, _)
\* The ops a walk along argument edges reaches from the ops of S
Reach(a, S) ==
    LET T == S \cup UNION {a[w] : w \in S}
    IN  IF T = S THEN S ELSE Reach(a, T)

\* The operation graphs a call is given: no op is its own argument, and the
\* ops the results do not reach, which the call never looks at, are left
\* without arguments.
OpGraphs(res) ==
    {a \in [Node -> SUBSET Node] :
        /\ \A w \in Node : w \notin a[w]
        /\ \A w \in Node \ Reach(a, res) : a[w] = {}}

\* What a call of assign_buffers starts from, the initializers apart
Start ==
    /\ pc = "start"
    /\ exc = "none"
    /\ run = 1
    /\ results \in SUBSET Node
    /\ args \in OpGraphs(results)
    /\ fusible \in Policies
    /\ persistent = {}
    /\ tdesc = <<>>
    /\ successors = Empty
    /\ order = <<>>
    /\ liveness = Empty
    /\ neighbors = Empty
    /\ weights = <<>>
    /\ partitions = <<>>
    /\ buffers = <<>>
    /\ buffer = [x \in Tensor |-> <<>>]
    /\ memory = 0
    /\ prevBuffer = [x \in Tensor |-> <<>>]
    /\ prevMemory = 0

\* No op has an initializer
NoInitializers == [n \in Node |-> {}]
NoNumPyTensors == [i \in Initializer |-> {}]

\* A call on ops without initializers
Init ==
    /\ Start
    /\ initializers = NoInitializers
    /\ nptensors = NoNumPyTensors

\* A call on ops of which any may carry an initializer, with or without a
\* NumPyTensor argument.  The ops the results do not reach are never looked
\* at and carry none.
InitInitializers ==
    /\ Start
    /\ initializers \in {[n \in Node |-> IF n \in I THEN {InitializerOf(n)} ELSE {}] :
                            I \in SUBSET Reach(args, results)}
    /\ nptensors \in {[i \in Initializer |-> IF i \in A THEN {NumPyTensorOf(i)} ELSE {}] :
                            A \in SUBSET UNION Range(initializers)}

\* dfg = DataFlowGraph(transformer, results)
DataFlowGraphInit ==
    /\ pc = "start"
    /\ \E st \in {DataFlowGraph(args, results)} :
           IF st.err
           THEN /\ pc' = "raised"
                /\ exc' = "RecursionError"
                /\ UNCHANGED successors
           ELSE /\ pc' = "dfg"
                /\ successors' = st.succ
                /\ UNCHANGED exc
    /\ UNCHANGED <<initializers, nptensors, run, args, results, fusible, persistent, tdesc, order, liveness,
                   neighbors, weights, partitions, buffers, buffer, memory,
                   prevBuffer, prevMemory>>

\* if fusible: dfg = KernelFlowGraph(dfg, fusible).  KernelFlowGraph.__init__
\* calls DataFlowGraph.__init__(self, transformer, results) with the single
\* argument dataflow.results, which raises TypeError before any fusion.
KernelFlowGraphInit ==
    /\ pc = "dfg"
    /\ fusible # None
    /\ pc' = "raised"
    /\ exc' = "TypeError"
    /\ UNCHANGED <<initializers, nptensors, run, args, results, fusible, persistent, tdesc, successors, order,
                   liveness, neighbors, weights, partitions, buffers, buffer,
                   memory, prevBuffer, prevMemory>>

\* dfg.liveness(); order[-1] of an empty order raises IndexError
LivenessCall ==
    /\ pc = "dfg"
    /\ fusible = None
    /\ \E pers \in IF run = 1
                   THEN {p \in SUBSET DOMAIN successors : Cardinality(p) <= 1}
                   ELSE {persistent} :
        /\ persistent' = pers
        /\ order' = Topsort(successors)
        /\ IF order' = <<>>
           THEN /\ pc' = "raised"
                /\ exc' = "IndexError"
                /\ UNCHANGED liveness
           ELSE /\ pc' = "live"
                /\ liveness' = Liveness(order', args, results, pers)
                /\ UNCHANGED exc
    /\ UNCHANGED <<initializers, nptensors, run, args, results, fusible, tdesc, successors, neighbors, weights,
                   partitions, buffers, buffer, memory, prevBuffer, prevMemory>>

----------------------------------------------------------------------------
\* InterferenceGraph

\* Neighbors without neighbors[v].add(u): each edge entered at one end only
NeighborsOneWay(lives) ==
    LET T == UNION Range(lives)
    IN  [x \in T |-> {y \in T \ {x} :
            x < y /\ \E i \in DOMAIN lives : x \in lives[i] /\ y \in lives[i]}]

\* neighbors, as InterferenceGraph.__init__ builds it from lives
Neighbors(lives) ==
    LET T == UNION Range(lives)
    IN  [x \in T |-> {y \in T \ {x} : \E i \in DOMAIN lives : x \in lives[i] /\ y \in lives[i]}]

\* max(1, reduce(mul, x.shape, 1)) * x.dtype.itemsize
Weight(d) == Max(1, Product(d.shape)) * d.itemsize

\* self.weights
Weights(nbrs, td) == [x \in DOMAIN nbrs |-> Weight(td[x])]

RECURSIVE UnsortedQueues(_, _)
\* SortedQueues without the sort: the tensors of T in any order
UnsortedQueues(T, w) ==
    IF T = {} THEN {<<>>}
    ELSE UNION {{<<x>> \o q : q \in UnsortedQueues(T \ {x}, w)} : x \in T}

RECURSIVE SortedQueues(_, _)
\* The lists sorted(weights, key=weights[x], reverse=True) can return for the
\* tensors of T: the sort is stable, and weights (a dict keyed by objects,
\* filled from sets) is iterated in any order, so tensors of equal weight come
\* in any order.
SortedQueues(T, w) ==
    IF T = {} THEN {<<>>}
    ELSE UNION {{<<x>> \o q : q \in SortedQueues(T \ {x}, w)} :
                    x \in {y \in T : \A z \in T : w[y] >= w[z]}}

\* Exclude without the union: the neighbors of a tensor taken into S are not
\* excluded
ExcludeNothing(N, nbrs, x) == N

\* N |= neighbors[x], the step of the scan that widens the excluded set
Exclude(N, nbrs, x) == N \cup nbrs[x]

\* Grow without the scan of the queue: the partition stays as it was started
GrowNothing(q, S, N, nbrs) == [S |-> S, N |-> N]

RECURSIVE Grow(_, _, _, _)
\* for x in queue: if x not in N: S |= {x}; N |= neighbors[x]
Grow(q, S, N, nbrs) ==
    IF q = <<>> THEN [S |-> S, N |-> N]
    ELSE LET x == Head(q)
         IN  IF x \notin N
             THEN Grow(Tail(q), S \cup {x}, Exclude(N, nbrs, x), nbrs)
             ELSE Grow(Tail(q), S, N, nbrs)

\* Buffer(color, size)
Buffer(color, size) == [color |-> color, size |-> size]

\* ifg = InterferenceGraph(lives).  The shapes and dtypes of the tensor
\* descriptions are read here for the first time.
InterferenceGraphInit ==
    /\ pc = "live"
    /\ neighbors' = Neighbors(liveness)
    /\ \E td \in IF run = 1 THEN [DOMAIN neighbors' -> TensorKinds] ELSE {tdesc} :
        /\ tdesc' = td
        /\ weights' = Weights(neighbors', td)
    /\ pc' = "ifg"
    /\ UNCHANGED <<initializers, nptensors, exc, run, args, results, fusible, persistent, successors, order,
                   liveness, partitions, buffers, buffer, memory, prevBuffer,
                   prevMemory>>

\* s.buffer = buffers[color] for s in S
SetBuffers(buf, S, b) == [x \in DOMAIN buf |-> IF x \in S THEN <<b>> ELSE buf[x]]

\* What one pass of color()'s while loop leaves: u heads a new partition, g is
\* the partition S grown from it with its excluded set N, b its buffer.
\* N = neighbors[u] names the set stored in the map, so the N |= neighbors[x]
\* of the scan widen neighbors[u] itself.
Colored(st, u, g, b) ==
    [partitions |-> Append(st.partitions, g.S),
     buffers    |-> Append(st.buffers, b),
     neighbors  |-> [st.neighbors EXCEPT ![u] = g.N],
     buffer     |-> SetBuffers(st.buffer, g.S, b)]

\* queue = [x for x in queue if x not in S]
Remaining(q, S) == SelectSeq(q, LAMBDA x : x \notin S)

RECURSIVE ColorLoop(_, _, _)
\* The while loop of color().  st holds partitions, buffers, the neighbors
\* map and the buffer attributes.
ColorLoop(q, w, st) ==
    IF q = <<>> THEN st
    ELSE LET u == Head(q)
             g == Grow(Tail(q), {u}, st.neighbors[u], st.neighbors)
         IN  ColorLoop(Remaining(Tail(q), g.S), w,
                       Colored(st, u, g, Buffer(Len(st.partitions), w[u])))

\* Buffer(-1, a.nptensor.size) with its data attribute set to the array.  The
\* array an initializer takes has the shape of the tensor it fills.
NumPyBuffer(a, d) == [color |-> -1, size |-> Product(d.shape), data |-> a]

\* bind_initializers(transformer, ops): every initializer of an op of ops
\* gets that op's buffer, and every NumPyTensor among the initializer's args
\* a buffer of its own
BindInitializers(buf, ops, inits, npts, td) ==
    [x \in DOMAIN buf |->
        IF \E op \in ops : x \in inits[op]
        THEN buf[TD(CHOOSE op \in ops : x \in inits[op])]
        ELSE IF \E op \in ops : \E i \in inits[op] : x \in npts[i]
        THEN <<NumPyBuffer(x, td[TD(CHOOSE op \in ops : \E i \in inits[op] : x \in npts[i])])>>
        ELSE buf[x]]

\* memory, buffers = ifg.color(), then bind_initializers(transformer, ops),
\* after which the call stands at `after`
ColorCall(after, ops) ==
    /\ pc = "ifg"
    /\ \E st \in {ColorLoop(q, weights, [partitions |-> <<>>, buffers |-> <<>>,
                                         neighbors |-> neighbors, buffer |-> buffer]) :
                        q \in SortedQueues(DOMAIN weights, weights)} :
        /\ partitions' = st.partitions
        /\ buffers' = st.buffers
        /\ neighbors' = st.neighbors
        /\ buffer' = BindInitializers(st.buffer, ops, initializers, nptensors, tdesc)
        /\ memory' = SumSizes(st.buffers)
    /\ pc' = after
    /\ UNCHANGED <<initializers, nptensors, exc, run, args, results, fusible, persistent, tdesc, successors,
                   order, liveness, weights, prevBuffer, prevMemory>>

\* InterferenceGraph.color(), called on its own
Color == ColorCall("colored", {})

\* The rest of assign_buffers: memory, buffers = ifg.color(),
\* bind_initializers(transformer, dfg.inputs), then return dfg, memory
ColorAndReturn == ColorCall("done", Inputs(successors))

\* assign_buffers run a second time on the same result set and policy: the
\* same ops, arguments, tags, shapes and dtypes; the graphs are built afresh,
\* and its sets and dicts iterate in whatever order that run gives them.
SecondCall ==
    /\ pc = "done"
    /\ run = 1
    /\ run' = 2
    /\ pc' = "start"
    /\ prevBuffer' = buffer
    /\ prevMemory' = memory
    /\ successors' = Empty
    /\ order' = <<>>
    /\ liveness' = Empty
    /\ neighbors' = Empty
    /\ weights' = <<>>
    /\ partitions' = <<>>
    /\ buffers' = <<>>
    /\ memory' = 0
    /\ UNCHANGED <<initializers, nptensors, exc, args, results, fusible, persistent, tdesc, buffer>>

Next ==
    \/ DataFlowGraphInit
    \/ KernelFlowGraphInit
    \/ LivenessCall
    \/ InterferenceGraphInit
    \/ ColorAndReturn

Spec == Init /\ [][Next]_vars

\* Two calls in a row
NextTwice ==
    \/ DataFlowGraphInit
    \/ KernelFlowGraphInit
    \/ LivenessCall
    \/ InterferenceGraphInit
    \/ ColorAndReturn
    \/ SecondCall

SpecTwice == Init /\ [][NextTwice]_vars

\* One call on ops that may carry initializers
SpecInitializers == InitInitializers /\ [][Next]_vars

----------------------------------------------------------------------------
\* InterferenceGraph(lives).color() on a liveness mapping of any content

\* The instructions a liveness mapping given directly is keyed by
Instr == 1..(NumNodes - 1)

InitColor ==
    /\ pc = "live"
    /\ exc = "none"
    /\ run = 1
    /\ args = [x \in Node |-> {}]
    /\ results = {}
    /\ fusible = None
    /\ persistent = {}
    /\ initializers = NoInitializers
    /\ nptensors = NoNumPyTensors
    /\ tdesc = <<>>
    /\ successors = Empty
    /\ order = <<>>
    /\ liveness \in [Instr -> SUBSET Node]
    /\ neighbors = Empty
    /\ weights = <<>>
    /\ partitions = <<>>
    /\ buffers = <<>>
    /\ buffer = [x \in Tensor |-> <<>>]
    /\ memory = 0
    /\ prevBuffer = [x \in Tensor |-> <<>>]
    /\ prevMemory = 0

NextColor ==
    \/ InterferenceGraphInit
    \/ Color

SpecColor == InitColor /\ [][NextColor]_vars

\* The orders in which the weights dict can have been iterated by the
\* color() call that left the present partitions and neighbors
QueuesOfFirstCall ==
    {q \in SortedQueues(DOMAIN weights, weights) :
        \E st \in {ColorLoop(q, weights, [partitions |-> <<>>, buffers |-> <<>>,
                                          neighbors |-> Neighbors(liveness),
                                          buffer |-> [x \in Tensor |-> <<>>]])} :
            st.partitions = partitions /\ st.neighbors = neighbors}

\* color() called a second time on the same InterferenceGraph.  neighbors and
\* weights are the object's attributes as the first call left them; weights
\* has not changed, so sorted() sees it in the order it had in the first
\* call.  The buffer attributes and the memory of the first call are kept
\* for comparison.
ColorAgain ==
    /\ pc = "colored"
    /\ run = 1
    /\ \E st \in {ColorLoop(q, weights, [partitions |-> <<>>, buffers |-> <<>>,
                                         neighbors |-> neighbors, buffer |-> buffer]) :
                        q \in QueuesOfFirstCall} :
        /\ partitions' = st.partitions
        /\ buffers' = st.buffers
        /\ neighbors' = st.neighbors
        /\ buffer' = st.buffer
        /\ memory' = SumSizes(st.buffers)
    /\ run' = 2
    /\ prevBuffer' = buffer
    /\ prevMemory' = memory
    /\ UNCHANGED <<pc, exc, args, results, fusible, persistent, initializers,
                   nptensors, tdesc, successors, order, liveness, weights>>

NextColorTwice ==
    \/ InterferenceGraphInit
    \/ Color
    \/ ColorAgain

SpecColorTwice == InitColor /\ [][NextColorTwice]_vars

----------------------------------------------------------------------------
\* Properties

\* The states in which liveness() has returned
LivenessReturned == pc \in {"live", "ifg", "done"}

\* The colour of a tensor description's buffer
ColorOf(buf, t) == buf[t][1].color

\* Two tensor descriptions that are live together at some instruction
CoLive(t1, t2) ==
    t1 # t2 /\ \E i \in DOMAIN liveness : t1 \in liveness[i] /\ t2 \in liveness[i]

\* The position of op in order
Pos(op) == CHOOSE i \in DOMAIN order : order[i] = op

\* A cycle of argument edges can be reached from the results
CyclicArgs == \E w \in Reach(args, results) : w \in Reach(args, args[w])

\* C1: after color() on the interference graph of any liveness mapping, two
\* tensor descriptions that are live together at some instruction have
\* buffers of different colours.
C1_NeighborsDifferInColor ==
    pc = "colored" =>
        \A t1, t2 \in UNION Range(liveness) :
            CoLive(t1, t2) =>
                /\ buffer[t1] # <<>>
                /\ buffer[t2] # <<>>
                /\ ColorOf(buffer, t1) # ColorOf(buffer, t2)

\* C1's case: a coloured graph with two tensors live together and two
\* sharing a buffer.
C1_Witness ==
    /\ pc = "colored"
    /\ \E t1, t2 \in UNION Range(liveness) : CoLive(t1, t2)
    /\ \E t1, t2 \in UNION Range(liveness) :
            t1 # t2 /\ ColorOf(buffer, t1) = ColorOf(buffer, t2)

\* C2: topsort() of an acyclic successor map in which every node is a key
\* lists every node exactly once, each node after all of its producers.
C2_TopsortOrdersProducersFirst ==
    (LivenessReturned \/ exc = "IndexError") =>
        /\ Range(order) = DOMAIN successors
        /\ Len(order) = Cardinality(DOMAIN successors)
        /\ \A v \in DOMAIN successors : \A w \in successors[v] : Pos(v) < Pos(w)

\* C2's case: a sorted graph of three nodes in which a node of higher id
\* produces for one of lower id and a node has two producers.
C2_Witness ==
    /\ LivenessReturned
    /\ Len(order) >= 3
    /\ \E v \in DOMAIN successors : \E w \in successors[v] : v > w
    /\ \E w \in DOMAIN successors : Cardinality(args[w]) >= 2

\* C3: in the mapping liveness() returns, the tensor description of every
\* argument of an instruction is live at that instruction.
C3_UsesAreLive ==
    LivenessReturned =>
        \A i \in Range(order) : Uses(args, i) \subseteq liveness[i]

\* C3's case: liveness() has returned and an instruction has an argument
\* that nothing after it uses and that is no result.
C3_Witness ==
    /\ pc = "live"
    /\ \E i \in Range(order) : \E x \in args[i] :
            /\ TD(x) \notin results
            /\ \A j \in Range(order) : Pos(j) > Pos(i) => x \notin args[j]

\* C4: fusing an acyclic dataflow graph under a policy yields a fused outer
\* graph (whose clusters partition the original nodes): a call with a policy
\* on an acyclic graph does not end in an exception.
C4_FusionYieldsPartition ==
    (fusible # None /\ ~CyclicArgs) => pc # "raised"

\* C5: assign_buffers with an empty result set (and no policy) completes
\* normally, with an empty instruction list and a total memory of 0.
C5_EmptyResultSetReturns ==
    (results = {} /\ fusible = None /\ pc \notin {"start", "dfg"}) =>
        (pc = "done" /\ exc = "none" /\ order = <<>> /\ memory = 0)

\* C6: when the argument chain of a result is cyclic, building the dataflow
\* graph fails with GraphCycleError.
C6_CycleRaisesGraphCycleError ==
    (CyclicArgs /\ pc # "start") => (pc = "raised" /\ exc = "GraphCycleError")

\* C7: two calls of assign_buffers on the same result set and policy return
\* the same total memory and give every tensor description the same colour.
C7_SecondCallAgrees ==
    (run = 2 /\ pc = "done") =>
        /\ memory = prevMemory
        /\ \A t \in DOMAIN weights : ColorOf(buffer, t) = ColorOf(prevBuffer, t)

\* C8: for an instruction C with two distinct arguments A and B, both are live
\* at C, the interference graph has the edge between A and B, and A and B get
\* buffers of different colours.
C8_TwoArgumentsInterfere ==
    \A C \in Node : \A A, B \in args[C] :
        (A # B /\ C \in DOMAIN successors) =>
            /\ LivenessReturned => (TD(A) \in liveness[C] /\ TD(B) \in liveness[C])
            /\ pc \in {"ifg", "done"} => (TD(B) \in neighbors[TD(A)] /\ TD(A) \in neighbors[TD(B)])
            /\ pc = "done" => ColorOf(buffer, TD(A)) # ColorOf(buffer, TD(B))

\* C8's case: a finished call on a graph with an instruction of two distinct
\* arguments.
C8_Witness ==
    /\ pc = "done"
    /\ \E C \in DOMAIN successors : \E A, B \in args[C] : A # B

\* A -> B -> C: A has no argument, B's only argument is A, C's only argument
\* is B, C is the only result, and no op is persistent.
IsChain(A, B, C) ==
    /\ A # B /\ B # C /\ A # C
    /\ args[A] = {}
    /\ args[B] = {A}
    /\ args[C] = {B}
    /\ results = {C}
    /\ persistent = {}

\* C9: for a chain A -> B -> C the interference graph has no edge between A
\* and C, and color() gives A and C the same buffer and B another, whatever
\* the weights.
C9_ChainReusesBuffer ==
    \A A, B, C \in Node :
        IsChain(A, B, C) =>
            /\ pc = "ifg" => (TD(C) \notin neighbors[TD(A)] /\ TD(A) \notin neighbors[TD(C)])
            /\ pc = "done" =>
                /\ buffer[TD(A)] = buffer[TD(C)]
                /\ ColorOf(buffer, TD(B)) # ColorOf(buffer, TD(A))

\* C9's case: a finished call on a chain in which the middle tensor is the
\* heaviest and the ids do not follow the chain.
C9_Witness ==
    \E A, B, C \in Node :
        /\ IsChain(A, B, C)
        /\ pc = "done"
        /\ A > C
        /\ weights[TD(B)] > weights[TD(A)]

\* C10: fusing a chain in which every adjacent pair is fusible leaves an outer
\* successor map of exactly one node.
C10_ChainFusesToOneNode ==
    (\E A, B, C \in Node : IsChain(A, B, C) /\ fusible = "gpu_fusible" /\ pc \notin {"start", "dfg"})
        => (pc = "done" /\ Cardinality(DOMAIN successors) = 1)

\* C11: the tensor description of every op tagged persistent is live at every
\* instruction of the order, those before the op's own instruction included.
C11_PersistentLiveThroughout ==
    LivenessReturned =>
        \A p \in persistent : \A i \in Range(order) : TD(p) \in liveness[i]

\* The ops of the dataflow graph
AllOps == DOMAIN successors

\* C12: after assign_buffers returns, every initializer of every op of the
\* dataflow graph, with predecessors or without, has the buffer of its op.
C12_InitializersShareBuffer ==
    pc = "done" =>
        \A n \in AllOps : \A i \in initializers[n] : buffer[TD(i)] = buffer[TD(n)]

\* The greatest weight among the tensor descriptions of S
MaxWeight(S) == CHOOSE m \in {weights[t] : t \in S} : \A t \in S : weights[t] <= m

RECURSIVE SumMaxWeights(_)
\* The sum, over the colour classes of ps, of the greatest weight in the class
SumMaxWeights(ps) ==
    IF ps = <<>> THEN 0 ELSE MaxWeight(Head(ps)) + SumMaxWeights(Tail(ps))

\* C13: color() makes one buffer per colour, of the size of the heaviest
\* tensor of the colour's class; every tensor fits the buffer it is given,
\* and the memory returned is the sum over the classes of the greatest
\* weight in the class.
C13_BufferFitsHeaviestOfClass ==
    pc = "colored" =>
        /\ Len(buffers) = Len(partitions)
        /\ \A c \in DOMAIN partitions :
                /\ buffers[c] = Buffer(c - 1, MaxWeight(partitions[c]))
                /\ \A t \in partitions[c] : buffer[t] = <<buffers[c]>>
        /\ \A t \in DOMAIN weights :
                /\ \E c \in DOMAIN partitions : t \in partitions[c]
                /\ weights[t] <= buffer[t][1].size
        /\ memory = SumMaxWeights(partitions)

\* C13's case: a colouring of two classes, one of which holds tensors of
\* different weights.
C13_Witness ==
    /\ pc = "colored"
    /\ Len(partitions) >= 2
    /\ \E c \in DOMAIN partitions : \E t1, t2 \in partitions[c] : weights[t1] < weights[t2]

\* A call of assign_buffers with a fusion policy on an acyclic graph that
\* has gone past the construction of the KernelFlowGraph
FusionAttempted == fusible # None /\ ~CyclicArgs /\ pc \notin {"start", "dfg"}

\* The dataflow graph has an edge
HasEdge == \E b \in Reach(args, results) : args[b] # {}

\* C14: after fusion no cluster holds both ends of an edge a -> b that the
\* policy does not allow to merge.  never_fusible allows no merge, so under
\* it fusion leaves every op of an acyclic graph as its own node of dfg, with
\* the successors the dataflow graph gave it.
C14_UnmergeableStayApart ==
    (FusionAttempted /\ fusible = "never_fusible" /\ HasEdge) =>
        /\ exc = "none"
        /\ DOMAIN successors = Reach(args, results)
        /\ \A a \in DOMAIN successors : \A b \in successors[a] : a # b /\ a \in args[b]

\* C15: in the fused outer graph a cluster of a single original op stays the
\* original op, unwrapped.  Under never_fusible every cluster is single, so
\* the call goes on to liveness and colouring with the original ops as the
\* nodes of dfg, and ends with a buffer on each of them.
C15_SingleOpsStayUnwrapped ==
    (FusionAttempted /\ fusible = "never_fusible" /\ HasEdge) =>
        /\ pc \in {"live", "ifg", "done"}
        /\ Range(order) = Reach(args, results)
        /\ pc = "done" => \A n \in Reach(args, results) : buffer[TD(n)] # <<>>

\* C16: every colour class color() makes has no two members that are live
\* together, and every tensor of a later class is live together with some
\* member of each earlier class.
C16_ClassesAreMaximalIndependent ==
    pc = "colored" =>
        \A c \in DOMAIN partitions :
            /\ \A t1, t2 \in partitions[c] : ~CoLive(t1, t2)
            /\ \A d \in DOMAIN partitions : \A t \in partitions[d] :
                    c < d => \E m \in partitions[c] : CoLive(m, t)

\* C16's case: a colouring with a class of two tensors followed by another
\* class.
C16_Witness ==
    /\ pc = "colored"
    /\ \E c, d \in DOMAIN partitions : c < d /\ Cardinality(partitions[c]) >= 2

C18_LiveOverWholeLifetime ==
    LivenessReturned =>
        /\ \A c \in Range(order) : \A p \in args[c] : \A i \in Range(order) :
                (Pos(p) <= Pos(i) /\ Pos(i) <= Pos(c)) => TD(p) \in liveness[i]
        /\ \A r \in results : \A i \in Range(order) :
                Pos(r) <= Pos(i) => TD(r) \in liveness[i]

\* C18's case: liveness() has returned, an instruction stands between a
\* producer and its consumer, and a result is not the last instruction.
C18_Witness ==
    /\ pc = "live"
    /\ \E c \in Range(order) : \E p \in args[c] : Pos(c) - Pos(p) >= 2
    /\ \E r \in results : Pos(r) < Len(order)

\* C19: through the fusion loop the working successor map stays a valid DAG:
\* fusion runs without an exception, and the map it works on has no
\* self-loop, no cycle, and no successor that is not a key.
C19_WorkingMapStaysDag ==
    (FusionAttempted /\ HasEdge) =>
        /\ exc = "none"
        /\ \A v \in DOMAIN successors :
                /\ successors[v] \subseteq DOMAIN successors
                /\ v \notin Reach(successors, successors[v])

\* C20: for an acyclic dataflow graph and any policy the fusion loop comes
\* to an end after fewer merges than there are ops: once the call has left
\* the construction of the KernelFlowGraph it has not stopped there, and dfg
\* holds at least one node and no more than there were ops.
C20_FusionLoopTerminates ==
    (FusionAttempted /\ HasEdge) =>
        /\ pc # "raised"
        /\ Cardinality(DOMAIN successors) >= 1
        /\ Cardinality(DOMAIN successors) <= Cardinality(Reach(args, results))

\* C21: color() leaves the neighbors map as InterferenceGraph.__init__ built
\* it, and a second color() on the same graph gives the same partition and
\* the same total memory.
C21_ColorLeavesNeighbors ==
    pc = "colored" =>
        /\ neighbors = Neighbors(liveness)
        /\ run = 2 =>
            /\ memory = prevMemory
            /\ \A t1, t2 \in DOMAIN weights :
                    (ColorOf(buffer, t1) = ColorOf(buffer, t2))
                        <=> (ColorOf(prevBuffer, t1) = ColorOf(prevBuffer, t2))

====
